---- MODULE Spec2Model ----
(***************************************************************************)
(* Model of vcd2tex's simulation.py: the reconstruction of channels from a *)
(* VCD token list (class VcdSimulation) and the rendering of a channel as  *)
(* a tikz-timing line (classes Simulation, Channel, ChannelEvent).         *)
(*                                                                         *)
(* Python values are modelled as follows.                                  *)
(*   - a dict is a sequence of [key, val] records in insertion order (the  *)
(*     order Python iterates it in);                                       *)
(*   - a token is a record [kind, data]; data has the fields of pyvcd's    *)
(*     payload for that kind that the code reads;                          *)
(*   - the value of a change is [type, val]: pyvcd yields a str for a      *)
(*     scalar change, an int or a str for a vector change, a float for a   *)
(*     real change and a str for a string change;                          *)
(*   - bit_index None is NoIndex and the int i is Index(i), so that None   *)
(*     differs from every int;                                             *)
(*   - an exception is the name of its class in a field "error".           *)
(***************************************************************************)
EXTENDS Integers, Sequences, FiniteSets, TLC

(***************************************************************************)
(* Bounds of the model.                                                    *)
(***************************************************************************)
\* longest change section (tokens after the declarations) of a token list
MaxTokens == 4
\* most variable declarations of a token list
MaxVars == 2
\* largest timestamp of a time marker
MaxTime == 6
\* most events of a rendered channel
MaxEvents == 3
\* most channels of a rendered Simulation
MaxChannels == 3
\* largest timestamp of an event of a rendered channel
MaxStamp == 2
MaxDecls == 4

NoIndex == <<>>
Index(i) == <<i>>

PyStr(s) == [type |-> "str", val |-> s]
PyInt(s) == [type |-> "int", val |-> s]
PyFloat(s) == [type |-> "float", val |-> s]

(***************************************************************************)
(* Python dict: insertion-ordered, assignment to an existing key keeps the *)
(* key's position.                                                         *)
(***************************************************************************)
DictHas(d, k) == \E i \in 1..Len(d) : d[i].key = k

DictGet(d, k) == d[CHOOSE i \in 1..Len(d) : d[i].key = k].val

DictSet(d, k, v) ==
    IF DictHas(d, k)
    THEN [i \in 1..Len(d) |-> IF d[i].key = k THEN [key |-> k, val |-> v] ELSE d[i]]
    ELSE Append(d, [key |-> k, val |-> v])

(***************************************************************************)
(* VcdSimulation.scope_vars: one iteration of the loop over the tokens,    *)
(* then the loop.  st.bound tells whether the local `scope` is assigned.   *)
(***************************************************************************)
scope_vars_init == [error |-> "none", bound |-> FALSE, scope |-> "", acc |-> <<>>]

scope_vars_step(st, token) ==
    IF st.error /= "none" THEN st
    ELSE IF token.kind = "SCOPE"
    THEN [st EXCEPT !.bound = TRUE,
                    !.scope = token.data.ident,
                    !.acc = DictSet(st.acc, token.data.ident, <<>>)]
    ELSE IF token.kind = "VAR"
    THEN IF ~st.bound
         THEN [st EXCEPT !.error = "UnboundLocalError"]
         ELSE LET var == token.data.reference
                  chans == DictGet(st.acc, st.scope)
                  chans1 == IF DictHas(chans, var) THEN chans
                            ELSE DictSet(chans, var, <<>>)
                  chans2 == DictSet(chans1, var,
                                DictSet(DictGet(chans1, var),
                                        token.data.bit_index, token.data))
              IN [st EXCEPT !.acc = DictSet(st.acc, st.scope, chans2)]
    ELSE st

RECURSIVE scope_vars_loop(_, _)
scope_vars_loop(toks, n) ==
    IF n = 0 THEN scope_vars_init
    ELSE scope_vars_step(scope_vars_loop(toks, n - 1), toks[n])

scope_vars(toks) == scope_vars_loop(toks, Len(toks))

(***************************************************************************)
(* VcdSimulation.time_changes.  The condition of line 53 is Python's       *)
(* chained comparison: a == b == c == d is (a == b) and (b == c) and       *)
(* (c == d).                                                               *)
(***************************************************************************)
is_change_kind(kind) ==
    \/ kind = "CHANGE_SCALAR"
    \/ kind = "CHANGE_VECTOR"
    \/ (kind = "CHANGE_REAL" /\ "CHANGE_REAL" = kind /\ kind = "CHANGE_STRING")

time_changes_init == [error |-> "none", bound |-> FALSE, time |-> 0, acc |-> <<>>]

\* (mutation: a time marker always opens a further entry)
time_changes_step_reopen(st, token) ==
    IF st.error /= "none" THEN st
    ELSE IF token.kind = "CHANGE_TIME"
    THEN [st EXCEPT !.bound = TRUE,
                    !.time = token.data,
                    !.acc = Append(st.acc, [key |-> token.data, val |-> <<>>])]
    ELSE IF is_change_kind(token.kind)
    THEN IF ~st.bound
         THEN [st EXCEPT !.error = "UnboundLocalError"]
         ELSE [st EXCEPT !.acc = DictSet(st.acc, st.time,
                                   Append(DictGet(st.acc, st.time), token.data))]
    ELSE st

time_changes_step(st, token) ==
    IF st.error /= "none" THEN st
    ELSE IF token.kind = "CHANGE_TIME"
    THEN [st EXCEPT !.bound = TRUE,
                    !.time = token.data,
                    !.acc = DictSet(st.acc, token.data, <<>>)]
    ELSE IF is_change_kind(token.kind)
    THEN IF ~st.bound
         THEN [st EXCEPT !.error = "UnboundLocalError"]
         ELSE [st EXCEPT !.acc = DictSet(st.acc, st.time,
                                   Append(DictGet(st.acc, st.time), token.data))]
    ELSE st

RECURSIVE time_changes_loop(_, _)
time_changes_loop(toks, n) ==
    IF n = 0 THEN time_changes_init
    ELSE time_changes_step(time_changes_loop(toks, n - 1), toks[n])

time_changes(toks) == time_changes_loop(toks, Len(toks))

(***************************************************************************)
(* VcdSimulation.to_events.                                                *)
(***************************************************************************)
\* vars.values(): the declarations of a group, in insertion order
dict_values(d) == [i \in 1..Len(d) |-> d[i].val]

\* sorted(..., key=bit_index, reverse=True) of declarations with distinct keys
RECURSIVE sorted_desc(_)
sorted_desc(decls) ==
    IF Len(decls) <= 1 THEN decls
    ELSE LET m == CHOOSE i \in 1..Len(decls) :
                      \A j \in 1..Len(decls) :
                          decls[j].bit_index[1] <= decls[i].bit_index[1]
             rest == SubSeq(decls, 1, m - 1) \o SubSeq(decls, m + 1, Len(decls))
         IN <<decls[m]>> \o sorted_desc(rest)

\* sorted() compares the keys of a list of two or more: None < int raises
sort_raises(decls) ==
    /\ Len(decls) >= 2
    /\ \E i \in 1..Len(decls) : decls[i].bit_index = NoIndex

\* ''.join(value)
RECURSIVE join(_)
join(value) ==
    IF value = <<>> THEN "" ELSE value[1].val \o join(Tail(value))

join_raises(value) == \E i \in 1..Len(value) : value[i].type /= "str"

\* (mutation: every sibling is written to position 0)
to_events_var_first(st, change, var) ==
    IF st.error /= "none" THEN st
    ELSE IF change.id_code = var.id_code
    THEN [st EXCEPT !.value[1] = change.value, !.has_changed = TRUE]
    ELSE st

\* lines 66-69, for one change and one var
to_events_var(st, change, var) ==
    IF st.error /= "none" THEN st
    ELSE IF change.id_code = var.id_code
    THEN LET index == IF var.bit_index /= NoIndex THEN var.bit_index[1] ELSE 0
             \* a list index in -len..-1 counts from the end
             pos == IF index >= 0 THEN index + 1 ELSE Len(st.value) + index + 1
         IN IF index >= Len(st.value) \/ index < -Len(st.value)
            THEN [st EXCEPT !.error = "IndexError"]
            ELSE [st EXCEPT !.value[pos] = change.value,
                            !.has_changed = TRUE]
    ELSE st

\* line 65: for var in vars
RECURSIVE to_events_vars(_, _, _, _)
to_events_vars(st, change, vars, n) ==
    IF n = 0 THEN st
    ELSE to_events_var(to_events_vars(st, change, vars, n - 1), change, vars[n])

\* line 64: for change in changes
RECURSIVE to_events_changes(_, _, _, _)
to_events_changes(st, changes, vars, n) ==
    IF n = 0 THEN st
    ELSE to_events_vars(to_events_changes(st, changes, vars, n - 1),
                        changes[n], vars, Len(vars))

\* (mutation: has_changed is not reset for each timestamp)
to_events_time_sticky(st, item, vars) ==
    IF st.error /= "none" THEN st
    ELSE LET s1 == to_events_changes(st, item.val, vars, Len(item.val))
         IN IF s1.error /= "none" THEN s1
            ELSE IF s1.has_changed
            THEN IF join_raises(s1.value)
                 THEN [s1 EXCEPT !.error = "TypeError"]
                 ELSE [s1 EXCEPT !.acc = Append(s1.acc,
                                     [time |-> item.key, value |-> join(s1.value)])]
            ELSE s1

\* lines 63-72: the body of the loop over time_changes.items()
to_events_time(st, item, vars) ==
    IF st.error /= "none" THEN st
    ELSE LET s1 == to_events_changes([st EXCEPT !.has_changed = FALSE],
                                     item.val, vars, Len(item.val))
         IN IF s1.error /= "none" THEN s1
            ELSE IF s1.has_changed
            THEN IF join_raises(s1.value)
                 THEN [s1 EXCEPT !.error = "TypeError"]
                 ELSE [s1 EXCEPT !.acc = Append(s1.acc,
                                     [time |-> item.key, value |-> join(s1.value)])]
            ELSE s1

RECURSIVE to_events_loop(_, _, _, _)
to_events_loop(st, items, vars, n) ==
    IF n = 0 THEN st
    ELSE to_events_time(to_events_loop(st, items, vars, n - 1), items[n], vars)

\* to_events(vars) of the VcdSimulation holding toks: [error, acc]
to_events(toks, vars) ==
    LET value == [i \in 1..Len(vars) |-> PyStr("X")]
        st0 == [error |-> "none", value |-> value, has_changed |-> FALSE, acc |-> <<>>]
    IN IF sort_raises(dict_values(vars))
       THEN [st0 EXCEPT !.error = "TypeError"]
       ELSE LET svars == sorted_desc(dict_values(vars))
                tc == time_changes(toks)
            IN IF tc.error /= "none"
               THEN [st0 EXCEPT !.error = tc.error]
               ELSE to_events_loop(st0, tc.acc, svars, Len(tc.acc))

(***************************************************************************)
(* VcdSimulation.to_channel and to_simulation.                             *)
(***************************************************************************)
\* the (module, channel_name, vars) triples in the order of the two loops
RECURSIVE groups_of(_)
groups_of(acc) ==
    IF acc = <<>> THEN <<>>
    ELSE [i \in 1..Len(acc[1].val) |->
             [module |-> acc[1].key, name |-> acc[1].val[i].key,
              vars |-> acc[1].val[i].val]]
         \o groups_of(Tail(acc))

RECURSIVE to_channel_loop(_, _, _)
to_channel_loop(toks, groups, n) ==
    IF n = 0 THEN [error |-> "none", channels |-> <<>>]
    ELSE LET st == to_channel_loop(toks, groups, n - 1)
         IN IF st.error /= "none" THEN st
            ELSE LET g == groups[n]
                     ev == to_events(toks, g.vars)
                 IN IF ev.error /= "none"
                    THEN [st EXCEPT !.error = ev.error]
                    ELSE [st EXCEPT !.channels = Append(st.channels,
                              [size |-> Len(g.vars), module |-> g.module,
                               name |-> g.name, events |-> ev.acc])]

to_channel(toks) ==
    LET sv == scope_vars(toks)
    IN IF sv.error /= "none"
       THEN [error |-> sv.error, channels |-> <<>>]
       ELSE to_channel_loop(toks, groups_of(sv.acc), Len(groups_of(sv.acc)))

\* Simulation(self.to_channel()), or the exception that ended the call
to_simulation(toks) == to_channel(toks)

(***************************************************************************)
(* Channel.value_at and Channel.next_event.  Both scan the events from the *)
(* front while the event's time is <= time.                                *)
(***************************************************************************)
\* (mutation: the scan stops at an event whose time equals time)
RECURSIVE scan_strict(_, _, _)
scan_strict(events, time, i) ==
    IF i < Len(events) /\ events[i + 1].time < time
    THEN scan_strict(events, time, i + 1)
    ELSE i

RECURSIVE scan(_, _, _)
scan(events, time, i) ==
    IF i < Len(events) /\ events[i + 1].time <= time
    THEN scan(events, time, i + 1)
    ELSE i

value_at(events, time) ==
    LET i == scan(events, time, 0)
    IN IF i = 0 THEN "X" ELSE events[i].value

\* (mutation: the index is one too small, the last event scanned is returned)
next_event_scanned(events, time) ==
    LET i == scan(events, time, 0)
    IN IF i >= Len(events) THEN <<>>
       ELSE IF i = 0 THEN <<events[1]>> ELSE <<events[i]>>

\* None is <<>>, an event e is <<e>>
next_event(events, time) ==
    LET i == scan(events, time, 0)
    IN IF i >= Len(events) THEN <<>> ELSE <<events[i + 1]>>

(***************************************************************************)
(* Channel.to_tikz_line, the parts of one loop iteration.                  *)
(***************************************************************************)
\* (mutation: the loop also runs at current_time = end)
loop_continues_inclusive(ct, e) == ct <= e

\* line 138
loop_continues(ct, e) == ct < e

\* lines 140-143
next_event_time_of(ne, end) == IF ne = <<>> THEN end ELSE ne[1].time

\* (mutation: the event's value is not taken over)
next_value_of_stale(ne) == "X"

\* line 149
next_value_of(ne) == ne[1].value

\* line 146: f'{signal_duration}{{{signal_type}}}'
segment_text(seg) == ToString(seg.signal_duration) \o "{" \o seg.signal_type \o "}"

\* ' '.join(strs)
RECURSIVE join_spaces(_)
join_spaces(strs) ==
    IF strs = <<>> THEN ""
    ELSE IF Len(strs) = 1 THEN strs[1]
    ELSE strs[1] \o " " \o join_spaces(Tail(strs))

\* line 152, for the prefix of line 135 and the segments appended at line 146
line_text(name, segs) ==
    join_spaces(<<name \o " &">> \o [i \in 1..Len(segs) |-> segment_text(segs[i])])

\* lines 138-150 as a function: the segments appended from current_time on
RECURSIVE tikz_segments(_, _, _, _)
tikz_segments(events, cv, ct, e) ==
    IF ~loop_continues(ct, e) THEN <<>>
    ELSE LET ne == next_event(events, ct)
             seg == [signal_duration |-> next_event_time_of(ne, e) - ct,
                     signal_type |-> cv]
         IN IF ne = <<>> THEN <<seg>>
            ELSE <<seg>> \o tikz_segments(events, next_value_of(ne), ne[1].time, e)

\* Channel.to_tikz_line(start, end), the text it returns
to_tikz_line(ch, s, e) ==
    line_text(ch.name, tikz_segments(ch.events, value_at(ch.events, s), s, e))

(***************************************************************************)
(* Simulation.to_tikz.  channel_names is [none, names]: none for None,     *)
(* names for the container given.                                          *)
(***************************************************************************)
\* lines 101 and 107: the literals are not f-strings, the braces stay doubled
begin_marker == "\\begin{{tikztimingtable}}"
end_marker == "\\end{{tikztimingtable}}"

\* (mutation: the membership test is negated)
RECURSIVE filter_by_name_not(_, _)
filter_by_name_not(chs, names) ==
    IF chs = <<>> THEN <<>>
    ELSE (IF chs[1].name \notin names THEN <<chs[1]>> ELSE <<>>)
         \o filter_by_name_not(Tail(chs), names)

\* line 104: [c for c in self.channels if c.name in channel_names]
RECURSIVE filter_by_name(_, _)
filter_by_name(chs, names) ==
    IF chs = <<>> THEN <<>>
    ELSE (IF chs[1].name \in names THEN <<chs[1]>> ELSE <<>>)
         \o filter_by_name(Tail(chs), names)

\* '\n'.join(strs)
RECURSIVE join_lines(_)
join_lines(strs) ==
    IF strs = <<>> THEN ""
    ELSE IF Len(strs) = 1 THEN strs[1]
    ELSE strs[1] \o "\n" \o join_lines(Tail(strs))

(***************************************************************************)
(* State.                                                                  *)
(***************************************************************************)
VARIABLES
    tokens,         \* VcdSimulation._tokens
    pc,             \* where the run is
    simulation,     \* what to_simulation returned or raised
    channel,        \* the Channel to_tikz_line is called on
    start,          \* to_tikz_line's arguments
    end,
    current_value,  \* to_tikz_line's locals
    current_time,
    tikz_line,      \* the (signal_duration, signal_type) pairs appended so far
    line,           \* the text to_tikz_line returned
    channel_names,  \* to_tikz's argument
    channels,       \* to_tikz's locals
    tikz_table,
    document        \* the text to_tikz returned

recon_vars == <<tokens, simulation>>
render_vars == <<channel, start, end, current_value, current_time, tikz_line, line>>
tikz_vars == <<channel_names, channels, tikz_table, document>>
vars == <<tokens, pc, simulation, channel, start, end, current_value,
          current_time, tikz_line, line, channel_names, channels, tikz_table,
          document>>

NoFilter == [none |-> TRUE, names |-> {}]
TikzIdle ==
    /\ channel_names = NoFilter
    /\ channels = <<>>
    /\ tikz_table = <<>>
    /\ document = ""

NoChannel == [size |-> 0, module |-> "", name |-> "", events |-> <<>>]
RenderIdle ==
    /\ channel = NoChannel
    /\ start = 0
    /\ end = 0
    /\ current_value = ""
    /\ current_time = 0
    /\ tikz_line = <<>>
    /\ line = ""

NoSimulation == [error |-> "pending", channels |-> <<>>]

(***************************************************************************)
(* The token lists.  scope_vars reads only SCOPE and VAR tokens and        *)
(* time_changes only the time and change tokens, so the declarations are   *)
(* put first, as in a VCD file.                                            *)
(***************************************************************************)
Scopes == {"top"}
VarDecls == {[reference |-> "d", bit_index |-> NoIndex, id_code |-> "!"],
             [reference |-> "d", bit_index |-> Index(0), id_code |-> "!"],
             [reference |-> "d", bit_index |-> Index(1), id_code |-> "#"],
             [reference |-> "d", bit_index |-> Index(-1), id_code |-> "#"]}
Times == 5..MaxTime
ScalarChanges == {[id_code |-> "!", value |-> PyStr("0")],
                  [id_code |-> "!", value |-> PyStr("1")],
                  [id_code |-> "#", value |-> PyStr("1")]}
VectorChanges == {[id_code |-> "!", value |-> PyStr("1x")],
                  [id_code |-> "!", value |-> PyInt("2")]}
RealChanges == {[id_code |-> "!", value |-> PyFloat("1.5")]}
StringChanges == {[id_code |-> "!", value |-> PyStr("s")]}

DeclKinds == {"SCOPE", "VAR"}
NumKind(toks, kinds) == Cardinality({i \in 1..Len(toks) : toks[i].kind \in kinds})
InDeclarations == NumKind(tokens, DeclKinds) = Len(tokens)

Init ==
    /\ tokens = <<>>
    /\ pc = "tokenize"
    /\ simulation = NoSimulation
    /\ RenderIdle
    /\ TikzIdle

\* __init__, line 17: the tokenizer yields a scope token
TokenizeScope ==
    /\ pc = "tokenize"
    /\ tokens = <<>>
    /\ \E s \in Scopes :
          tokens' = Append(tokens, [kind |-> "SCOPE", data |-> [ident |-> s]])
    /\ UNCHANGED <<pc, simulation, render_vars, tikz_vars>>

\* ... a variable declaration (each bit of a variable is declared once)
TokenizeVar ==
    /\ pc = "tokenize"
    /\ InDeclarations
    /\ tokens /= <<>>
    /\ NumKind(tokens, {"VAR"}) < MaxVars
    /\ \E v \in VarDecls :
          /\ \A i \in 1..Len(tokens) :
                tokens[i].kind = "VAR" => tokens[i].data.bit_index /= v.bit_index
          /\ tokens' = Append(tokens, [kind |-> "VAR", data |-> v])
    /\ UNCHANGED <<pc, simulation, render_vars, tikz_vars>>

CanChange == pc = "tokenize" /\ Len(tokens) - NumKind(tokens, DeclKinds) < MaxTokens

\* ... a time marker
TokenizeTime ==
    /\ CanChange
    /\ \E t \in Times : tokens' = Append(tokens, [kind |-> "CHANGE_TIME", data |-> t])
    /\ UNCHANGED <<pc, simulation, render_vars, tikz_vars>>

\* ... a change of each of the four kinds
TokenizeScalar ==
    /\ CanChange
    /\ \E c \in ScalarChanges :
          tokens' = Append(tokens, [kind |-> "CHANGE_SCALAR", data |-> c])
    /\ UNCHANGED <<pc, simulation, render_vars, tikz_vars>>

TokenizeVector ==
    /\ CanChange
    /\ \E c \in VectorChanges :
          tokens' = Append(tokens, [kind |-> "CHANGE_VECTOR", data |-> c])
    /\ UNCHANGED <<pc, simulation, render_vars, tikz_vars>>

TokenizeReal ==
    /\ CanChange
    /\ \E c \in RealChanges :
          tokens' = Append(tokens, [kind |-> "CHANGE_REAL", data |-> c])
    /\ UNCHANGED <<pc, simulation, render_vars, tikz_vars>>

TokenizeString ==
    /\ CanChange
    /\ \E c \in StringChanges :
          tokens' = Append(tokens, [kind |-> "CHANGE_STRING", data |-> c])
    /\ UNCHANGED <<pc, simulation, render_vars, tikz_vars>>

\* to_simulation(), lines 84-85
ToSimulation ==
    /\ pc = "tokenize"
    /\ simulation' = to_simulation(tokens)
    /\ pc' = "done"
    /\ UNCHANGED <<tokens, render_vars, tikz_vars>>

Next ==
    \/ TokenizeScope
    \/ TokenizeVar
    \/ TokenizeTime
    \/ TokenizeScalar
    \/ TokenizeVector
    \/ TokenizeReal
    \/ TokenizeString
    \/ ToSimulation

Spec == Init /\ [][Next]_vars

(***************************************************************************)
(* Declaration sections of any shape: a scope name may be opened more than *)
(* once, a declaration may come before the first scope, and a later        *)
(* declaration may repeat the reference name and bit_index of an earlier   *)
(* one.                                                                    *)
(***************************************************************************)
DeclScopes == {"top", "sub"}
DeclVars == {[reference |-> "d", bit_index |-> Index(0), id_code |-> "!"],
             [reference |-> "d", bit_index |-> Index(1), id_code |-> "#"],
             [reference |-> "d", bit_index |-> Index(0), id_code |-> "#"],
             [reference |-> "q", bit_index |-> NoIndex, id_code |-> "!"]}

\* __init__, line 17: the tokenizer yields a scope token
DeclareScope ==
    /\ pc = "tokenize"
    /\ Len(tokens) < MaxDecls
    /\ \E s \in DeclScopes :
          tokens' = Append(tokens, [kind |-> "SCOPE", data |-> [ident |-> s]])
    /\ UNCHANGED <<pc, simulation, render_vars, tikz_vars>>

\* ... a variable declaration
DeclareVar ==
    /\ pc = "tokenize"
    /\ Len(tokens) < MaxDecls
    /\ \E v \in DeclVars :
          tokens' = Append(tokens, [kind |-> "VAR", data |-> v])
    /\ UNCHANGED <<pc, simulation, render_vars, tikz_vars>>

DeclNext ==
    \/ DeclareScope
    \/ DeclareVar
    \/ ToSimulation

SpecDecl == Init /\ [][DeclNext]_vars

(***************************************************************************)
(* Rendering one channel over one window: Channel.to_tikz_line.            *)
(***************************************************************************)
Symbols == {"0", "1"}
Stamps == 0..MaxStamp
WindowTimes == 0..(MaxStamp + 1)

EventsOf(n) == [1..n -> [time : Stamps, value : Symbols]]

\* the channels of __main__ (their values 0 and 1 are formatted as "0" and "1")
clk == [size |-> 1, module |-> "teste", name |-> "clock",
        events |-> <<[time |-> 0, value |-> "0"], [time |-> 10, value |-> "1"],
                     [time |-> 20, value |-> "0"], [time |-> 30, value |-> "1"],
                     [time |-> 40, value |-> "0"], [time |-> 50, value |-> "1"]>>]
enable == [size |-> 1, module |-> "teste", name |-> "enable",
           events |-> <<[time |-> 0, value |-> "0"], [time |-> 30, value |-> "1"]>>]
\* the windows of __main__
MainWindows == {<<0, 50>>, <<5, 20>>, <<0, 15>>, <<5, 15>>}

RenderInit ==
    /\ tokens = <<>>
    /\ simulation = NoSimulation
    /\ pc = "call"
    /\ \/ /\ \E n \in 0..MaxEvents : \E ev \in EventsOf(n) :
                channel = [size |-> 1, module |-> "top", name |-> "d", events |-> ev]
          /\ start \in WindowTimes
          /\ end \in WindowTimes
       \/ /\ channel \in {clk, enable}
          /\ \E w \in MainWindows : start = w[1] /\ end = w[2]
    /\ current_value = ""
    /\ current_time = 0
    /\ tikz_line = <<>>
    /\ line = ""
    /\ TikzIdle

\* lines 135-137
ToTikzLineBegin ==
    /\ pc = "call"
    /\ current_value' = value_at(channel.events, start)
    /\ current_time' = start
    /\ tikz_line' = <<>>
    /\ pc' = "loop"
    /\ UNCHANGED <<recon_vars, tikz_vars, channel, start, end, line>>

\* lines 138-150: one iteration of the while loop
ToTikzLineIter ==
    /\ pc = "loop"
    /\ loop_continues(current_time, end)
    /\ LET ne == next_event(channel.events, current_time)
           next_event_time == next_event_time_of(ne, end)
           signal_duration == next_event_time - current_time
           signal_type == current_value
       IN /\ tikz_line' = Append(tikz_line,
                 [signal_duration |-> signal_duration, signal_type |-> signal_type])
          /\ IF ne = <<>>
             THEN /\ pc' = "return"
                  /\ UNCHANGED <<current_value, current_time>>
             ELSE /\ pc' = "loop"
                  /\ current_value' = next_value_of(ne)
                  /\ current_time' = ne[1].time
    /\ UNCHANGED <<recon_vars, tikz_vars, channel, start, end, line>>

\* line 152, reached when the loop condition fails or by the break
ToTikzLineReturn ==
    /\ \/ pc = "loop" /\ ~loop_continues(current_time, end)
       \/ pc = "return"
    /\ line' = line_text(channel.name, tikz_line)
    /\ pc' = "returned"
    /\ UNCHANGED <<recon_vars, tikz_vars, channel, start, end, current_value, current_time,
                   tikz_line>>

RenderNext ==
    \/ ToTikzLineBegin
    \/ ToTikzLineIter
    \/ ToTikzLineReturn

SpecRender == RenderInit /\ [][RenderNext]_vars

\* the call runs on: a single thread executes to_tikz_line to its return
SpecRenderFair == RenderInit /\ [][RenderNext]_vars /\ WF_vars(RenderNext)

(***************************************************************************)
(* Rendering a Simulation: Simulation.to_tikz.                             *)
(***************************************************************************)
\* the channels of __main__ and two more that share their names
clk2 == [size |-> 1, module |-> "teste", name |-> "clock",
         events |-> <<[time |-> 10, value |-> "1"]>>]
enable2 == [size |-> 1, module |-> "teste", name |-> "enable", events |-> <<>>]
TikzChannels == {clk, enable, clk2, enable2}
TikzNames == {"clock", "enable", "reset"}
TikzWindows == {<<0, 50>>, <<5, 15>>}

TikzInit ==
    /\ tokens = <<>>
    /\ pc = "tikz_call"
    /\ \E n \in 0..MaxChannels : \E chs \in [1..n -> TikzChannels] :
          simulation = [error |-> "none", channels |-> chs]
    /\ \/ channel_names = NoFilter
       \/ \E names \in SUBSET TikzNames :
             channel_names = [none |-> FALSE, names |-> names]
    /\ \E w \in TikzWindows : start = w[1] /\ end = w[2]
    /\ channel = NoChannel
    /\ current_value = ""
    /\ current_time = 0
    /\ tikz_line = <<>>
    /\ line = ""
    /\ channels = <<>>
    /\ tikz_table = <<>>
    /\ document = ""

\* lines 101-104
ToTikzBegin ==
    /\ pc = "tikz_call"
    /\ tikz_table' = <<begin_marker>>
    /\ channels' = IF ~channel_names.none
                   THEN filter_by_name(simulation.channels, channel_names.names)
                   ELSE simulation.channels
    /\ pc' = "tikz_loop"
    /\ UNCHANGED <<recon_vars, render_vars, channel_names, document>>

\* lines 105-106: one iteration of the loop over channels
ToTikzChannel ==
    /\ pc = "tikz_loop"
    /\ Len(tikz_table) - 1 < Len(channels)
    /\ tikz_table' = Append(tikz_table,
           "\t" \o to_tikz_line(channels[Len(tikz_table)], start, end))
    /\ UNCHANGED <<recon_vars, render_vars, pc, channel_names, channels, document>>

\* lines 107-109
ToTikzReturn ==
    /\ pc = "tikz_loop"
    /\ Len(tikz_table) - 1 = Len(channels)
    /\ tikz_table' = Append(tikz_table, end_marker)
    /\ document' = join_lines(tikz_table')
    /\ pc' = "tikz_returned"
    /\ UNCHANGED <<recon_vars, render_vars, channel_names, channels>>

TikzNext ==
    \/ ToTikzBegin
    \/ ToTikzChannel
    \/ ToTikzReturn

SpecTikz == TikzInit /\ [][TikzNext]_vars

(***************************************************************************)
(* Properties of the rendering (checked under SpecRender).                 *)
(***************************************************************************)
StrictlyIncreasing(events) ==
    \A i \in 1..(Len(events) - 1) : events[i].time < events[i + 1].time

RECURSIVE SumDurations(_)
SumDurations(segs) ==
    IF segs = <<>> THEN 0 ELSE segs[1].signal_duration + SumDurations(Tail(segs))

\* each segment's symbol repeated for its duration
RECURSIVE Expand(_)
Expand(segs) ==
    IF segs = <<>> THEN <<>>
    ELSE [i \in 1..segs[1].signal_duration |-> segs[1].signal_type]
         \o Expand(Tail(segs))

Returned == pc = "returned"
ProperWindow == StrictlyIncreasing(channel.events) /\ start < end

\* C1 (as claimed): for a channel with strictly increasing timestamps and a
\* window start < end, the durations of the segments to_tikz_line emits sum
\* to end - start.
C1_DurationsSumToWindow ==
    (Returned /\ ProperWindow) => SumDurations(tikz_line) = end - start

\* C6: for a channel with strictly increasing timestamps and a window
\* start < end, the segments to_tikz_line emits, each symbol repeated for its
\* duration from time start on, give value_at(t) at every integer t in
\* [start, end).
C6_ExpansionIsValueAt ==
    (Returned /\ ProperWindow) =>
        \A t \in start..(end - 1) :
            /\ t - start + 1 <= Len(Expand(tikz_line))
            /\ Expand(tikz_line)[t - start + 1] = value_at(channel.events, t)

\* a window that starts before the first event and ends after the last one,
\* rendered in three segments or more
C6_Witness ==
    /\ Returned /\ ProperWindow
    /\ Len(channel.events) >= 2
    /\ start < channel.events[1].time
    /\ channel.events[Len(channel.events)].time < end
    /\ Len(tikz_line) >= 3

\* C10: for a channel with strictly increasing timestamps and a window
\* start < end, every emitted segment has a strictly positive duration, and
\* there is one segment for the value at start and one for each event strictly
\* inside (start, end), none for an event at end; the clock of __main__ over
\* [0,50) gives five segments of 10 and enable gives 30{0} 20{1}.
C10_PositiveSegments ==
    ProperWindow =>
        /\ \A i \in 1..Len(tikz_line) : tikz_line[i].signal_duration > 0
        /\ Returned =>
              /\ Len(tikz_line) = 1 + Cardinality({i \in 1..Len(channel.events) :
                                      /\ start < channel.events[i].time
                                      /\ channel.events[i].time < end})
              /\ (channel = clk /\ start = 0 /\ end = 50) =>
                     line = "clock & 10{0} 10{1} 10{0} 10{1} 10{0}"
              /\ (channel = enable /\ start = 0 /\ end = 50) =>
                     line = "enable & 30{0} 20{1}"

\* the clock rendered over [0,50): its last event is at 50
C10_Witness ==
    /\ Returned
    /\ channel = clk /\ start = 0 /\ end = 50
    /\ Len(tikz_line) = 5

\* C11: a window with start = end gives no segment, and the returned line is
\* the channel name prefix alone, whatever the channel's events are.
C11_EmptyWindow ==
    (Returned /\ start = end) =>
        /\ tikz_line = <<>>
        /\ line = channel.name \o " &"

\* an empty window at the time of an event of a channel with several events
C11_Witness ==
    /\ Returned /\ start = end
    /\ Len(channel.events) >= 2
    /\ \E i \in 1..Len(channel.events) : channel.events[i].time = start

\* the value of the event of greatest timestamp <= t, 'X' when there is none
LatestValue(events, t) ==
    LET before == {i \in 1..Len(events) : events[i].time <= t}
    IN IF before = {} THEN "X"
       ELSE events[CHOOSE i \in before :
                       \A j \in before : events[j].time <= events[i].time].value

QueryTimes == (-1)..(MaxStamp + 2) \cup {start, end}

\* C12: for a channel with strictly increasing timestamps, value_at(t) is the
\* value of the latest event with timestamp <= t, and 'X' when no event has a
\* timestamp <= t; to_tikz_line starts from that value at t = start.
C12_ValueAtIsLatest ==
    StrictlyIncreasing(channel.events) =>
        /\ \A t \in QueryTimes :
               value_at(channel.events, t) = LatestValue(channel.events, t)
        /\ (pc = "loop" /\ tikz_line = <<>>) =>
               current_value = LatestValue(channel.events, start)

\* to_tikz_line has looked up the value at a start that lies at the time of
\* the second of three events
C12_Witness ==
    /\ pc = "loop" /\ tikz_line = <<>>
    /\ StrictlyIncreasing(channel.events)
    /\ Len(channel.events) = 3
    /\ channel.events[2].time = start
    /\ current_value = channel.events[2].value
    /\ current_value /= channel.events[1].value


\* C18: to_tikz_line returns for every channel (timestamps in any order) and
\* every window: next_event(t) is None or an event with timestamp > t, each
\* iteration that stays in the loop strictly increases current_time, and the
\* call reaches its return.
C18_Terminates ==
    /\ [](\A t \in QueryTimes :
             LET ne == next_event(channel.events, t)
             IN ne = <<>> \/ ne[1].time > t)
    /\ [][(pc = "loop" /\ pc' = "loop") => current_time' > current_time]_vars
    /\ <>Returned

\* a channel whose timestamps are not in increasing order, rendered in two
\* segments or more
C18_Witness ==
    /\ Returned
    /\ ~StrictlyIncreasing(channel.events)
    /\ \E i \in 1..(Len(channel.events) - 1) :
           channel.events[i].time > channel.events[i + 1].time
    /\ Len(tikz_line) >= 2


(***************************************************************************)
(* Properties of to_tikz (checked under SpecTikz).                         *)
(***************************************************************************)
\* the positions of the Simulation's channels that the filter lets through
Selected ==
    {i \in 1..Len(simulation.channels) :
        channel_names.none \/ simulation.channels[i].name \in channel_names.names}

\* the k-th smallest of them
SelectedAt(k) == CHOOSE i \in Selected : Cardinality({j \in Selected : j <= i}) = k

\* C13: to_tikz returns the begin marker, then one line for each channel whose
\* name is in the filter (for every channel when there is no filter), in the
\* Simulation's order, then the end marker.
C13_FilteredInOrder ==
    pc = "tikz_returned" =>
        /\ Len(tikz_table) = Cardinality(Selected) + 2
        /\ tikz_table[1] = begin_marker
        /\ tikz_table[Len(tikz_table)] = end_marker
        /\ \A k \in 1..Cardinality(Selected) :
               tikz_table[k + 1] =
                   "\t" \o to_tikz_line(simulation.channels[SelectedAt(k)], start, end)
        /\ document = join_lines(tikz_table)

\* a filter that lets two channels of one name through and holds one back
C13_Witness ==
    /\ pc = "tikz_returned"
    /\ ~channel_names.none
    /\ Len(simulation.channels) = 3
    /\ Selected = {1, 3}
    /\ simulation.channels[1] /= simulation.channels[3]
    /\ simulation.channels[1].name = simulation.channels[3].name


(***************************************************************************)
(* Properties of the reconstruction (checked under Spec).                  *)
(***************************************************************************)
ChangeKinds == {"CHANGE_SCALAR", "CHANGE_VECTOR", "CHANGE_REAL", "CHANGE_STRING"}

Done == pc = "done"
Built == Done /\ simulation.error = "none"

\* the tokens of the given kinds, in source order
RECURSIVE OfKinds(_, _)
OfKinds(toks, kinds) ==
    IF toks = <<>> THEN <<>>
    ELSE (IF toks[1].kind \in kinds THEN <<toks[1]>> ELSE <<>>)
         \o OfKinds(Tail(toks), kinds)

Declarations == OfKinds(tokens, {"VAR"})
ChangeSection == OfKinds(tokens, ChangeKinds \cup {"CHANGE_TIME"})
DeclaredIds == {Declarations[i].data.id_code : i \in 1..Len(Declarations)}

\* the groups the channels were built from, in the channels' order
Groups == groups_of(scope_vars(tokens).acc)
SiblingIds(g) == {g.vars[i].val.id_code : i \in 1..Len(g.vars)}
Matches(item, g) == \E j \in 1..Len(item.val) : item.val[j].id_code \in SiblingIds(g)
TimedChangeSet == time_changes(tokens).acc

\* C2 (as claimed): siblings declared at bit-index 1 and bit-index 0, in
\* either order, and a timeline whose only change sets the bit-index 0
\* sibling to '1' at t=5, give the single ChannelEvent (5, "X1").
C2_ScenarioE ==
    (/\ Done
     /\ Len(Declarations) = 2
     /\ {Declarations[i].data.bit_index : i \in 1..2} = {Index(0), Index(1)}
     /\ ChangeSection = <<[kind |-> "CHANGE_TIME", data |-> 5],
                          [kind |-> "CHANGE_SCALAR",
                           data |-> [id_code |-> "!", value |-> PyStr("1")]]>>)
    => /\ simulation.error = "none"
       /\ Len(simulation.channels) = 1
       /\ simulation.channels[1].events = <<[time |-> 5, value |-> "X1"]>>

\* C3 (as claimed): no two consecutive ChannelEvents of a channel have equal
\* composite values, whatever the token sequence.
C3_NoEqualNeighbours ==
    Built =>
        \A c \in 1..Len(simulation.channels) :
            LET events == simulation.channels[c].events
            IN \A i \in 1..(Len(events) - 1) : events[i].value /= events[i + 1].value

\* C4: when to_events returns, for every timestamp of the Timed Change Set
\* and every group, the channel has an event at that timestamp iff one of the
\* group's sibling id-codes appears in the timestamp's change list, and it has
\* at most one event at any timestamp.
C4_EventIffSiblingChanged ==
    Built =>
        \A c \in 1..Len(simulation.channels) :
            LET events == simulation.channels[c].events
            IN /\ \A k \in 1..Len(TimedChangeSet) :
                      (\E i \in 1..Len(events) : events[i].time = TimedChangeSet[k].key)
                      <=> Matches(TimedChangeSet[k], Groups[c])
               /\ \A i, j \in 1..Len(events) :
                      events[i].time = events[j].time => i = j

\* a timestamp with two matching changes and one event, and a timestamp with
\* no matching change and no event
C4_Witness ==
    /\ Built
    /\ Len(simulation.channels) = 1
    /\ Len(simulation.channels[1].events) = 1
    /\ Len(TimedChangeSet) = 2
    /\ \E k \in 1..2 :
          /\ Cardinality({j \in 1..Len(TimedChangeSet[k].val) :
                 TimedChangeSet[k].val[j].id_code \in SiblingIds(Groups[1])}) = 2
          /\ ~Matches(TimedChangeSet[3 - k], Groups[1])

\* C5 (as claimed): a change token whose id-code no variable declaration
\* carries makes to_simulation raise.
C5_UndeclaredIdAborts ==
    (Done /\ \E i \in 1..Len(tokens) :
                 /\ tokens[i].kind \in ChangeKinds
                 /\ tokens[i].data.id_code \notin DeclaredIds)
    => simulation.error /= "none"

\* C7 (as claimed): every event of a channel of two siblings or more has a
\* composite value of as many characters as the group has siblings, whatever
\* the order of the declarations and the kind of the changes.
C7_ValueLengthIsWidth ==
    Built =>
        \A c \in 1..Len(simulation.channels) :
            LET ch == simulation.channels[c]
            IN Len(Groups[c].vars) >= 2 =>
                   \A i \in 1..Len(ch.events) :
                       Len(ch.events[i].value) = Len(Groups[c].vars)

\* C8 (as claimed): a value-change token before the first time marker makes
\* to_simulation raise.
C8_EarlyChangeAborts ==
    (Done /\ \E i \in 1..Len(tokens) :
                 /\ tokens[i].kind \in ChangeKinds
                 /\ \A j \in 1..(i - 1) : tokens[j].kind /= "CHANGE_TIME")
    => simulation.error /= "none"

\* the time markers, in source order
Markers == OfKinds(tokens, {"CHANGE_TIME"})
NonDecreasingMarkers ==
    \A i \in 1..(Len(Markers) - 1) : Markers[i].data <= Markers[i + 1].data

\* C9: when the time markers are non-decreasing in source order, the
\* timestamps of each channel's consecutive events are strictly increasing.
C9_TimestampsIncrease ==
    (Built /\ NonDecreasingMarkers) =>
        \A c \in 1..Len(simulation.channels) :
            StrictlyIncreasing(simulation.channels[c].events)

\* a timestamp marked twice, with a change of the channel after each marker,
\* and a later timestamp with another change
C9_Witness ==
    /\ Built /\ NonDecreasingMarkers
    /\ \E i \in 1..(Len(Markers) - 1) : Markers[i].data = Markers[i + 1].data
    /\ Len(simulation.channels) = 1
    /\ Len(simulation.channels[1].events) = 1
    /\ Len(ChangeSection) = 4
    /\ ChangeSection[2].kind = "CHANGE_SCALAR"
    /\ ChangeSection[4].kind = "CHANGE_SCALAR"

\* the timestamp current at token n: that of the last marker before it
HasMarkerBefore(n) == \E j \in 1..(n - 1) : tokens[j].kind = "CHANGE_TIME"
CurrentTimeAt(n) ==
    tokens[CHOOSE j \in 1..(n - 1) :
               /\ tokens[j].kind = "CHANGE_TIME"
               /\ \A l \in (j + 1)..(n - 1) : tokens[l].kind /= "CHANGE_TIME"].data

\* C14 (as claimed): while time_changes runs without error, every value-change
\* token after a time marker, of any of the four kinds, is appended to the
\* list of the current timestamp.
C14_EveryKindAppended ==
    \A n \in 1..Len(tokens) :
        LET before == time_changes(SubSeq(tokens, 1, n - 1))
            after == time_changes(SubSeq(tokens, 1, n))
        IN (/\ tokens[n].kind \in ChangeKinds
            /\ HasMarkerBefore(n)
            /\ before.error = "none")
           => /\ after.error = "none"
              /\ DictGet(after.acc, CurrentTimeAt(n))
                     = Append(DictGet(before.acc, CurrentTimeAt(n)), tokens[n].data)

\* a group whose siblings carry the bit-indices 0..N-1, or one scalar sibling
WellIndexed(g) ==
    LET idx == {g.vars[i].val.bit_index : i \in 1..Len(g.vars)}
    IN idx = {Index(i) : i \in 0..(Len(g.vars) - 1)} \/ idx = {NoIndex}

\* the sibling of g whose value is kept at buffer position p (from 1)
SiblingAt(g, p) ==
    LET i == CHOOSE i \in 1..Len(g.vars) :
                 g.vars[i].val.bit_index \in {Index(p - 1), NoIndex}
    IN g.vars[i].val

\* the changes recorded in the Timed Change Set at timestamps <= t
RECURSIVE ChangesUpTo(_, _)
ChangesUpTo(n, t) ==
    IF n = 0 THEN <<>>
    ELSE ChangesUpTo(n - 1, t)
         \o (IF TimedChangeSet[n].key <= t THEN TimedChangeSet[n].val ELSE <<>>)

\* the value of the last of them that carries id, 'X' when there is none
HeldValue(id, t) ==
    LET cs == ChangesUpTo(Len(TimedChangeSet), t)
        hits == {j \in 1..Len(cs) : cs[j].id_code = id}
    IN IF hits = {} THEN "X"
       ELSE cs[CHOOSE j \in hits : \A l \in hits : l <= j].value.val

RECURSIVE HeldValues(_, _, _)
HeldValues(g, p, t) ==
    IF p > Len(g.vars) THEN ""
    ELSE HeldValue(SiblingAt(g, p).id_code, t) \o HeldValues(g, p + 1, t)

\* C15: with time markers in non-decreasing order and a group indexed 0..N-1
\* (or one scalar sibling), every event's composite value is, position by
\* position, the value of the last change recorded for that sibling's id-code
\* at or before the event's timestamp, 'X' if there is none; a sibling with no
\* change at the event's timestamp holds what it held at the previous event.
C15_PositionsHoldLastChange ==
    (Built /\ NonDecreasingMarkers) =>
        \A c \in 1..Len(simulation.channels) :
            LET g == Groups[c]
                events == simulation.channels[c].events
            IN WellIndexed(g) =>
                 /\ \A i \in 1..Len(events) :
                        events[i].value = HeldValues(g, 1, events[i].time)
                 /\ \A i \in 2..Len(events) : \A p \in 1..Len(g.vars) :
                        (\A k \in 1..Len(TimedChangeSet) :
                            TimedChangeSet[k].key = events[i].time =>
                                \A j \in 1..Len(TimedChangeSet[k].val) :
                                    TimedChangeSet[k].val[j].id_code
                                        /= SiblingAt(g, p).id_code)
                        => HeldValue(SiblingAt(g, p).id_code, events[i].time)
                             = HeldValue(SiblingAt(g, p).id_code, events[i - 1].time)

\* two siblings, the second changed at the first timestamp and the first
\* changed twice at a later one
C15_Witness ==
    /\ Built /\ NonDecreasingMarkers
    /\ Len(simulation.channels) = 1
    /\ Len(Groups[1].vars) = 2 /\ WellIndexed(Groups[1])
    /\ Len(simulation.channels[1].events) = 2
    /\ simulation.channels[1].events[1].value = "X1"
    /\ simulation.channels[1].events[2].value = "11"

\* the scalar and vector changes made while t was the current timestamp
RECURSIVE ChangesWhile(_, _)
ChangesWhile(n, t) ==
    IF n = 0 THEN <<>>
    ELSE ChangesWhile(n - 1, t)
         \o (IF /\ tokens[n].kind \in {"CHANGE_SCALAR", "CHANGE_VECTOR"}
                /\ HasMarkerBefore(n)
                /\ CurrentTimeAt(n) = t
             THEN <<tokens[n].data>> ELSE <<>>)

\* C17 (as claimed): with time markers in non-decreasing order, the list of a
\* timestamp holds every scalar or vector change made while that timestamp
\* was current, in source order, also when the timestamp is marked again.
C17_RepeatedMarkerKeepsChanges ==
    (NonDecreasingMarkers /\ time_changes(tokens).error = "none") =>
        \A m \in 1..Len(Markers) :
            DictGet(TimedChangeSet, Markers[m].data)
                = ChangesWhile(Len(tokens), Markers[m].data)

(***************************************************************************)
(* The Declaration Index against the declaration tokens.                   *)
(***************************************************************************)
\* the index of the last scope token before token n, 0 if there is none
LastScopeBefore(n) ==
    LET S == {i \in 1..(n - 1) : tokens[i].kind = "SCOPE"}
    IN IF S = {} THEN 0 ELSE CHOOSE i \in S : \A j \in S : j <= i

ScopeAt(n) == tokens[LastScopeBefore(n)].data.ident

FollowsScope(n) == tokens[n].kind = "VAR" /\ LastScopeBefore(n) > 0

SameKeys(m, n) ==
    /\ FollowsScope(m) /\ FollowsScope(n)
    /\ ScopeAt(m) = ScopeAt(n)
    /\ tokens[m].data.reference = tokens[n].data.reference
    /\ tokens[m].data.bit_index = tokens[n].data.bit_index

StoredIn(acc, n) ==
    /\ DictHas(acc, ScopeAt(n))
    /\ DictHas(DictGet(acc, ScopeAt(n)), tokens[n].data.reference)
    /\ DictHas(DictGet(DictGet(acc, ScopeAt(n)), tokens[n].data.reference),
               tokens[n].data.bit_index)
    /\ DictGet(DictGet(DictGet(acc, ScopeAt(n)), tokens[n].data.reference),
               tokens[n].data.bit_index) = tokens[n].data

ReplacedLater(n) == \E m \in (n + 1)..Len(tokens) : SameKeys(m, n)

\* the bit-indices the tokens declare for a (scope, reference name) group
DeclaredBits(module, name) ==
    {tokens[n].data.bit_index :
        n \in {i \in 1..Len(tokens) : /\ FollowsScope(i)
                                      /\ ScopeAt(i) = module
                                      /\ tokens[i].data.reference = name}}

\* C16: once scope_vars has been built from any declaration tokens, every
\* variable declaration that follows a scope token is stored under (the
\* scope current at that token, reference name, bit_index) unless a later
\* declaration with the same three keys replaced it, and to_channel gives
\* each (scope, reference name) group a size equal to the number of distinct
\* bit-indices declared for it.
C16_DeclarationsKept ==
    /\ scope_vars(tokens).error = "none" =>
          \A n \in 1..Len(tokens) :
              FollowsScope(n) =>
                  StoredIn(scope_vars(tokens).acc, n) \/ ReplacedLater(n)
    /\ Built =>
          \A k \in 1..Len(simulation.channels) :
              simulation.channels[k].size
                  = Cardinality(DeclaredBits(simulation.channels[k].module,
                                             simulation.channels[k].name))

====
